---- MODULE Spec2Model ----
(***************************************************************************)
(* Model of app/api/docx-to-questions/route.ts: the POST handler that      *)
(* turns the paragraphs of a decoded .docx into question blocks, audits    *)
(* their numbering, classifies every block's lines and builds the          *)
(* response.                                                               *)
(*                                                                         *)
(* A string is a sequence of one-element tokens: a token is a character    *)
(* ("1", ".", " ", "A", ...) or one whole markup tag ("<br/>", "<sup>",    *)
(* ...).  The regular expressions of the source are operators over these   *)
(* sequences.                                                              *)
(***************************************************************************)
EXTENDS Integers, Sequences, FiniteSets, TLC

\* ------------------------------------------------------------------ bounds
MaxParas == 3
MaxCalls == 2
MaxInput == 3
MaxTotal == 3
MaxTick == 10
MaxQuestions == 2

\* ------------------------------------------------------- character classes
Null == -1

Tags == {"<br/>", "<sup>", "</sup>", "<strong>", "</strong>", "<em>", "</em>"}

DigitChars == <<"0", "1", "2", "3", "4", "5", "6", "7", "8", "9">>

UpperChars ==
  <<"A", "B", "C", "D", "E", "F", "G", "H", "I", "J", "K", "L", "M",
    "N", "O", "P", "Q", "R", "S", "T", "U", "V", "W", "X", "Y", "Z">>

LowerChars ==
  <<"a", "b", "c", "d", "e", "f", "g", "h", "i", "j", "k", "l", "m",
    "n", "o", "p", "q", "r", "s", "t", "u", "v", "w", "x", "y", "z">>

IsSpace(c) == c \in {" ", "\t"}

IsDigit(c) == \E i \in 1..10 : DigitChars[i] = c

DigitVal(c) == (CHOOSE i \in 1..10 : DigitChars[i] = c) - 1

IsAH(c) == \E i \in 1..8 : UpperChars[i] = c

IsSep(c) == c \in {".", ")"}

ToLower(c) ==
  IF \E i \in 1..26 : UpperChars[i] = c
  THEN LowerChars[CHOOSE i \in 1..26 : UpperChars[i] = c]
  ELSE c

ToUpper(c) ==
  IF \E i \in 1..26 : LowerChars[i] = c
  THEN UpperChars[CHOOSE i \in 1..26 : LowerChars[i] = c]
  ELSE c

IsWordChar(c) ==
  \/ IsDigit(c)
  \/ c = "_"
  \/ \E i \in 1..26 : UpperChars[i] = c \/ LowerChars[i] = c

\* ---------------------------------------------------------- string helpers
Drop(s, n) == IF n >= Len(s) THEN <<>> ELSE SubSeq(s, n + 1, Len(s))

\* index of the first non-whitespace token at or after i (Len(s)+1 if none)
RECURSIVE SkipWs(_, _)
SkipWs(s, i) ==
  IF i <= Len(s) /\ IsSpace(s[i]) THEN SkipWs(s, i + 1) ELSE i

\* number of consecutive digits starting at i
RECURSIVE DigitRun(_, _)
DigitRun(s, i) ==
  IF i <= Len(s) /\ IsDigit(s[i]) THEN 1 + DigitRun(s, i + 1) ELSE 0

RECURSIVE TrimEnd(_)
TrimEnd(s) ==
  IF s # <<>> /\ IsSpace(s[Len(s)]) THEN TrimEnd(SubSeq(s, 1, Len(s) - 1)) ELSE s

TrimStart(s) == Drop(s, SkipWs(s, 1) - 1)

Trim(s) == TrimEnd(TrimStart(s))

\* cheerio .text(): the text nodes, every tag gone
IsText(c) == c \notin Tags

TextOf(s) == SelectSeq(s, IsText)

\* .replace(/\t+/g, " ").replace(/\s+/g, " ")
RECURSIVE CollapseWs(_)
CollapseWs(s) ==
  IF s = <<>> THEN <<>>
  ELSE IF IsSpace(s[1])
       THEN <<" ">> \o CollapseWs(Drop(s, SkipWs(s, 1) - 1))
       ELSE <<s[1]>> \o CollapseWs(Tail(s))

\* parseInt(digits, 10)
RECURSIVE ParseInt(_)
ParseInt(ds) ==
  IF ds = <<>> THEN 0
  ELSE 10 * ParseInt(SubSeq(ds, 1, Len(ds) - 1)) + DigitVal(ds[Len(ds)])

\* String(n) for n >= 0
RECURSIVE NumStr(_)
NumStr(n) ==
  IF n < 10 THEN <<DigitChars[n + 1]>>
  ELSE NumStr(n \div 10) \o <<DigitChars[(n % 10) + 1]>>

RECURSIVE Join(_, _)
Join(parts, sep) ==
  IF parts = <<>> THEN <<>>
  ELSE IF Len(parts) = 1 THEN parts[1]
  ELSE parts[1] \o sep \o Join(Tail(parts), sep)

Slice(s, n) == IF Len(s) <= n THEN s ELSE SubSeq(s, 1, n)

\* ------------------------------------------------------ regular expressions
\* \s*[.)]\s+ from position i: index of the last token matched, 0 if no match
SepEnd(s, i) ==
  LET j == SkipWs(s, i) IN
    IF j + 1 <= Len(s) /\ IsSep(s[j]) /\ IsSpace(s[j + 1])
    THEN SkipWs(s, j + 1) - 1
    ELSE 0

\* /^\s*(\d{1,3})\s*[.)]\s+/ : index of the last token of the match, 0 if none
NumPrefixEnd(s) ==
  LET i == SkipWs(s, 1)
      nd == DigitRun(s, i)
  IN IF nd >= 1 /\ nd <= 3 THEN SepEnd(s, i + nd) ELSE 0

\* /^\s*[A-H]\s*[.)]\s+/ : index of the last token of the match, 0 if none
ChoicePrefixEnd(s) ==
  LET i == SkipWs(s, 1) IN
    IF i <= Len(s) /\ IsAH(s[i]) THEN SepEnd(s, i + 1) ELSE 0

\* Q_START: text.match(Q_START), m[1] parsed by parseInt(m[1], 10)
Q_START(text) ==
  LET i == SkipWs(text, 1)
      nd == DigitRun(text, i)
  IN [ok |-> NumPrefixEnd(text) > 0,
      num |-> IF NumPrefixEnd(text) > 0
              THEN ParseInt(SubSeq(text, i, i + nd - 1))
              ELSE Null]

\* CHOICE: /^\s*([A-H])\s*[.)]\s+(.*)$/ on the trimmed text; cm[1] is the key
CHOICE(t) ==
  [ok |-> ChoicePrefixEnd(t) > 0,
   key |-> IF ChoicePrefixEnd(t) > 0 THEN t[SkipWs(t, 1)] ELSE ""]

\* does keyword kw stand at position i of s, letter case ignored
StartsWithCI(s, i, kw) ==
  /\ i + Len(kw) - 1 <= Len(s)
  /\ \A k \in 1..Len(kw) : ToLower(s[i + k - 1]) = ToLower(kw[k])

AnswerKeywords ==
  << <<"A", "n", "s", "w", "e", "r">>,
     <<"A", "n", "s">>,
     <<"C", "o", "r", "r", "e", "c", "t", " ", "A", "n", "s", "w", "e", "r">> >>

\* after the keyword: \s*[:\-]\s*(.+)\s*$ ; the start of group 1, 0 if no match
AnswerRest(t, i) ==
  LET j == SkipWs(t, i) IN
    IF j <= Len(t) /\ t[j] \in {":", "-"}
    THEN LET k == SkipWs(t, j + 1) IN
           IF k <= Len(t) THEN k
           ELSE IF j + 1 <= Len(t) THEN Len(t) ELSE 0
    ELSE 0

\* ANSWER: /^\s*(?:Answer|Ans|Correct Answer)\s*[:\-]\s*(.+)\s*$/i
\* the alternatives are tried in order; am[1] is the captured remainder
ANSWER(t) ==
  LET i == SkipWs(t, 1)
      hits == {n \in 1..3 :
                 /\ StartsWithCI(t, i, AnswerKeywords[n])
                 /\ AnswerRest(t, i + Len(AnswerKeywords[n])) > 0}
  IN IF hits = {} THEN [ok |-> FALSE, rest |-> <<>>]
     ELSE LET n == CHOOSE m \in hits : \A o \in hits : m <= o
              k == AnswerRest(t, i + Len(AnswerKeywords[n]))
          IN [ok |-> TRUE, rest |-> Drop(t, k - 1)]

normalizeAnswer(raw) ==
  LET s == Trim(raw) IN
    IF /\ s # <<>>
       /\ IsAH(ToUpper(s[1]))
       /\ (Len(s) = 1 \/ ~IsWordChar(s[2]))
    THEN <<ToUpper(s[1])>>
    ELSE CollapseWs(s)

stripNumPrefix(html) == Drop(html, NumPrefixEnd(html))

stripChoicePrefix(html) == Drop(html, ChoicePrefixEnd(html))

\* the text nodes of the fragment, whitespace collapsed, trimmed
toPlainStem(html) == Trim(CollapseWs(TextOf(html)))

BrToSpace(html) == [k \in 1..Len(html) |-> IF html[k] = "<br/>" THEN " " ELSE html[k]]

\* <strong>/<tr> unwrapped, <br> replaced by a space, then as toPlainStem
cleanChoiceHtml(html) == Trim(CollapseWs(TextOf(BrToSpace(html))))

\* --------------------------------------------------------- line extraction
\* one Line per <p>: html = inner HTML trimmed, text = text without trailing
\* whitespace; a paragraph with neither is dropped
LineOf(p) == [html |-> Trim(p), text |-> TrimEnd(TextOf(p))]

KeepLine(ln) == Len(ln.html) > 0 \/ Len(ln.text) > 0

ExtractLines(paras) ==
  SelectSeq([k \in 1..Len(paras) |-> LineOf(paras[k])], KeepLine)

\* ------------------------------------------------------------ segmentation
NoCur == [open |-> FALSE, num |-> Null, lines |-> <<>>]

RECURSIVE StripTrailingEmpty(_)
StripTrailingEmpty(ls) ==
  IF ls # <<>> /\ Trim(ls[Len(ls)].text) = <<>>
  THEN StripTrailingEmpty(SubSeq(ls, 1, Len(ls) - 1))
  ELSE ls

\* variant: the trailing lines without text stay in the block
pushCurNoStrip(blocks, cur) ==
  IF ~cur.open THEN blocks
  ELSE IF cur.lines # <<>>
       THEN Append(blocks, [num |-> cur.num, lines |-> cur.lines])
       ELSE blocks

\* pushCur(): the blocks after closing cur
pushCur(blocks, cur) ==
  IF ~cur.open THEN blocks
  ELSE LET ls == StripTrailingEmpty(cur.lines) IN
         IF ls # <<>> THEN Append(blocks, [num |-> cur.num, lines |-> ls])
         ELSE blocks

\* variant: the lines before the first numbered line open an unnumbered block
RECURSIVE SegmentLoopKeepPreamble(_, _, _, _)
SegmentLoopKeepPreamble(lines, i, blocks, cur) ==
  IF i > Len(lines) THEN pushCur(blocks, cur)
  ELSE LET ln == lines[i]
           m == Q_START(ln.text)
       IN IF m.ok
          THEN SegmentLoopKeepPreamble(lines, i + 1, pushCur(blocks, cur),
                           [open |-> TRUE, num |-> m.num, lines |-> <<ln>>])
          ELSE IF cur.open
          THEN SegmentLoopKeepPreamble(lines, i + 1, blocks,
                           [cur EXCEPT !.lines = Append(cur.lines, ln)])
          ELSE SegmentLoopKeepPreamble(lines, i + 1, blocks,
                           [open |-> TRUE, num |-> Null, lines |-> <<ln>>])

RECURSIVE SegmentLoop(_, _, _, _)
SegmentLoop(lines, i, blocks, cur) ==
  IF i > Len(lines) THEN pushCur(blocks, cur)
  ELSE LET ln == lines[i]
           m == Q_START(ln.text)
       IN IF m.ok
          THEN SegmentLoop(lines, i + 1, pushCur(blocks, cur),
                           [open |-> TRUE, num |-> m.num, lines |-> <<ln>>])
          ELSE IF cur.open
          THEN SegmentLoop(lines, i + 1, blocks,
                           [cur EXCEPT !.lines = Append(cur.lines, ln)])
          ELSE SegmentLoop(lines, i + 1, blocks, cur)

\* variant: no fallback block for a document without numbering
FallbackWrapNever(blocks, lines) == blocks

\* if no block was emitted, the whole document is one unnumbered block
FallbackWrap(blocks, lines) ==
  IF blocks = <<>> /\ lines # <<>>
  THEN <<[num |-> Null, lines |-> lines]>>
  ELSE blocks

Segment(lines) == FallbackWrap(SegmentLoop(lines, 1, <<>>, NoCur), lines)

IsFinite(n) == n # Null

\* --------------------------------------------------------- numbering audit
NoAudit == [present |-> {}, duplicates |-> <<>>]

InSeq(q, x) == \E k \in 1..Len(q) : q[k] = x

\* variant: duplicates kept in an array, one element per repeated block
RECURSIVE AuditLoopList(_, _, _)
AuditLoopList(blocks, i, a) ==
  IF i > Len(blocks) THEN a
  ELSE LET n == blocks[i].num IN
    IF ~IsFinite(n) THEN AuditLoopList(blocks, i + 1, a)
    ELSE IF n \in a.present
    THEN AuditLoopList(blocks, i + 1, [a EXCEPT !.duplicates = Append(@, n)])
    ELSE AuditLoopList(blocks, i + 1, [a EXCEPT !.present = @ \cup {n}])

\* for (const b of blocks): present / duplicates (a Set keeps insertion order)
RECURSIVE AuditLoop(_, _, _)
AuditLoop(blocks, i, a) ==
  IF i > Len(blocks) THEN a
  ELSE LET n == blocks[i].num IN
    IF ~IsFinite(n) THEN AuditLoop(blocks, i + 1, a)
    ELSE IF n \in a.present
    THEN AuditLoop(blocks, i + 1,
           [a EXCEPT !.duplicates = IF InSeq(a.duplicates, n) THEN @ ELSE Append(@, n)])
    ELSE AuditLoop(blocks, i + 1, [a EXCEPT !.present = @ \cup {n}])

DuplicateEntries(dups) ==
  [k \in 1..Len(dups) |-> [index |-> dups[k], reason |-> "duplicate-number"]]

\* variant: the loop from min to max without the present.has(i) test
RECURSIVE MissingEntriesUnchecked(_, _, _)
MissingEntriesUnchecked(i, max, present) ==
  IF i > max THEN <<>>
  ELSE <<[index |-> i, reason |-> "missing-number"]>>
       \o MissingEntriesUnchecked(i + 1, max, present)

\* for (let i = min; i <= max; i++) if (!present.has(i)) push missing-number
RECURSIVE MissingEntries(_, _, _)
MissingEntries(i, max, present) ==
  IF i > max THEN <<>>
  ELSE (IF i \in present THEN <<>>
        ELSE <<[index |-> i, reason |-> "missing-number"]>>)
       \o MissingEntries(i + 1, max, present)

SetMin(S) == CHOOSE x \in S : \A y \in S : x <= y

SetMax(S) == CHOOSE x \in S : \A y \in S : x >= y

\* the numbering audit: the accumulator after its pushes
Audit(blocks, acc) ==
  LET a == AuditLoop(blocks, 1, NoAudit) IN
    acc \o DuplicateEntries(a.duplicates)
        \o (IF a.present # {}
            THEN MissingEntries(SetMin(a.present), SetMax(a.present), a.present)
            ELSE <<>>)

\* ---------------------------------------------------------- classification
InitClassify ==
  [stemParts |-> <<>>, choices |-> <<>>, currentChoice |-> 0,
   answer |-> <<>>, answerSet |-> FALSE]

\* variant: a continuation line is appended to the first choice
ClassifyLineToFirstChoice(st, ln, j) ==
  LET t == Trim(ln.text)
      cm == CHOICE(t)
      am == ANSWER(t)
  IN IF cm.ok
     THEN [st EXCEPT
             !.choices = Append(@, [key |-> ToUpper(cm.key),
                                    text |-> cleanChoiceHtml(stripChoicePrefix(ln.html))]),
             !.currentChoice = Len(st.choices) + 1]
     ELSE IF am.ok
     THEN [st EXCEPT !.answer = normalizeAnswer(am.rest),
                     !.answerSet = TRUE,
                     !.currentChoice = 0]
     ELSE IF j = 0
     THEN [st EXCEPT !.stemParts = Append(@, stripNumPrefix(ln.html)),
                     !.currentChoice = 0]
     ELSE IF st.currentChoice # 0
     THEN [st EXCEPT !.choices[1].text =
                        Trim(@ \o <<" ">> \o ln.html)]
     ELSE [st EXCEPT !.stemParts = Append(@, ln.html)]

\* variant: an answer line leaves currentChoice as it is
ClassifyLineAnswerKeepsChoice(st, ln, j) ==
  LET t == Trim(ln.text)
      cm == CHOICE(t)
      am == ANSWER(t)
  IN IF cm.ok
     THEN [st EXCEPT
             !.choices = Append(@, [key |-> ToUpper(cm.key),
                                    text |-> cleanChoiceHtml(stripChoicePrefix(ln.html))]),
             !.currentChoice = Len(st.choices) + 1]
     ELSE IF am.ok
     THEN [st EXCEPT !.answer = normalizeAnswer(am.rest),
                     !.answerSet = TRUE]
     ELSE IF j = 0
     THEN [st EXCEPT !.stemParts = Append(@, stripNumPrefix(ln.html)),
                     !.currentChoice = 0]
     ELSE IF st.currentChoice # 0
     THEN [st EXCEPT !.choices[st.currentChoice].text =
                        Trim(@ \o <<" ">> \o ln.html)]
     ELSE [st EXCEPT !.stemParts = Append(@, ln.html)]

\* variant: the first-line test made before the choice and answer tests
ClassifyLineFirstLineFirst(st, ln, j) ==
  LET t == Trim(ln.text)
      cm == CHOICE(t)
      am == ANSWER(t)
  IN IF j = 0
     THEN [st EXCEPT !.stemParts = Append(@, stripNumPrefix(ln.html)),
                     !.currentChoice = 0]
     ELSE IF cm.ok
     THEN [st EXCEPT
             !.choices = Append(@, [key |-> ToUpper(cm.key),
                                    text |-> cleanChoiceHtml(stripChoicePrefix(ln.html))]),
             !.currentChoice = Len(st.choices) + 1]
     ELSE IF am.ok
     THEN [st EXCEPT !.answer = normalizeAnswer(am.rest),
                     !.answerSet = TRUE,
                     !.currentChoice = 0]
     ELSE IF st.currentChoice # 0
     THEN [st EXCEPT !.choices[st.currentChoice].text =
                        Trim(@ \o <<" ">> \o ln.html)]
     ELSE [st EXCEPT !.stemParts = Append(@, ln.html)]

\* the body of b.lines.forEach((ln, j) => ...); currentChoice is the position
\* in choices of the object it refers to, 0 for null
ClassifyLine(st, ln, j) ==
  LET t == Trim(ln.text)
      cm == CHOICE(t)
      am == ANSWER(t)
  IN IF cm.ok
     THEN [st EXCEPT
             !.choices = Append(@, [key |-> ToUpper(cm.key),
                                    text |-> cleanChoiceHtml(stripChoicePrefix(ln.html))]),
             !.currentChoice = Len(st.choices) + 1]
     ELSE IF am.ok
     THEN [st EXCEPT !.answer = normalizeAnswer(am.rest),
                     !.answerSet = TRUE,
                     !.currentChoice = 0]
     ELSE IF j = 0
     THEN [st EXCEPT !.stemParts = Append(@, stripNumPrefix(ln.html)),
                     !.currentChoice = 0]
     ELSE IF st.currentChoice # 0
     THEN [st EXCEPT !.choices[st.currentChoice].text =
                        Trim(@ \o <<" ">> \o ln.html)]
     ELSE [st EXCEPT !.stemParts = Append(@, ln.html)]

RECURSIVE ClassifyLoop(_, _, _)
ClassifyLoop(lines, j, st) ==
  IF j >= Len(lines) THEN st
  ELSE ClassifyLoop(lines, j + 1, ClassifyLine(st, lines[j + 1], j))

Classify(b) == ClassifyLoop(b.lines, 0, InitClassify)

\* (?:<br\/>\s*)* from position i: how many repetitions, and where they end
RECURSIVE BrRun(_, _)
BrRun(s, i) ==
  IF i <= Len(s) /\ s[i] = "<br/>"
  THEN LET j == SkipWs(s, i + 1)
           r == BrRun(s, j)
       IN [count |-> 1 + r.count, end |-> IF r.count = 0 THEN j - 1 ELSE r.end]
  ELSE [count |-> 0, end |-> i - 1]

\* .replace(/(?:<br\/>\s*){3,}/g, "<br/><br/>")
RECURSIVE CollapseBr(_, _)
CollapseBr(s, i) ==
  IF i > Len(s) THEN <<>>
  ELSE LET r == BrRun(s, i) IN
    IF r.count >= 3 THEN <<"<br/>", "<br/>">> \o CollapseBr(s, r.end + 1)
    ELSE <<s[i]>> \o CollapseBr(s, i + 1)

StemHTML(stemParts) == Trim(CollapseBr(Join(stemParts, <<"<br/>">>), 1))

\* -------------------------------------------------------- question builder
\* variant: one choice is enough for MULTIPLE_CHOICE
QuestionTypeAnyChoice(choices) ==
  IF Len(choices) >= 1 THEN "MULTIPLE_CHOICE" ELSE "FREE_RESPONSE"

QuestionType(choices) ==
  IF Len(choices) >= 2 THEN "MULTIPLE_CHOICE" ELSE "FREE_RESPONSE"

\* variant: the index is always the position
QuestionIndexPositional(b, i) == i + 1

\* i is the 0-based position of the block, as in blocks.forEach((b, i) => ...)
QuestionIndex(b, i) == IF IsFinite(b.num) THEN b.num ELSE i + 1

\* variant: the extracted answer is emitted (...(answer ? { answer } : {}))
EmittedAnswerKept(st) == st.answer

\* answer: "" in out.push, whatever the classifier extracted
EmittedAnswer(st) == <<>>

BuildQuestion(b, i, st) ==
  LET index == QuestionIndex(b, i) IN
    [id |-> <<"Q">> \o NumStr(index),
     index |-> index,
     type |-> QuestionType(st.choices),
     category |-> "Uncategorized",
     stem |-> toPlainStem(StemHTML(st.stemParts)),
     media |-> [type |-> "image",
                url |-> <<"/images/2018/B/q">> \o NumStr(index) \o <<".png">>,
                alt |-> <<>>],
     choices |-> st.choices,
     answer |-> EmittedAnswer(st)]

LineTexts(lines) == [k \in 1..Len(lines) |-> lines[k].text]

\* if (!plainStem || plainStem.replace(/\s+/g, "").length < 3)
EmptyStem(plainStem) ==
  plainStem = <<>> \/ Len(SelectSeq(plainStem, LAMBDA c : ~IsSpace(c))) < 3

\* variant: one choice or two count as incomplete
IncompleteChoicesUpToTwo(choices) == Len(choices) \in {1, 2}

\* if (choices.length === 1)
IncompleteChoices(choices) == Len(choices) = 1

\* variant: eight choices are already too many
TooManyChoicesFromEight(choices) == Len(choices) >= 8

\* if (choices.length > 8)
TooManyChoices(choices) == Len(choices) > 8

\* the entries one block pushes, in the order of the source
BlockDiagnostics(b, i, st) ==
  LET index == QuestionIndex(b, i)
      plainStem == toPlainStem(StemHTML(st.stemParts))
  IN (IF ~IsFinite(b.num)
      THEN <<[index |-> Null, reason |-> "no-number",
              sample |-> Slice(b.lines[1].text, 120)]>>
      ELSE <<>>)
  \o (IF EmptyStem(plainStem)
      THEN <<[index |-> index, reason |-> "empty-stem",
              sample |-> Slice(Join(LineTexts(b.lines), <<" ">>), 140)]>>
      ELSE <<>>)
  \o (IF IncompleteChoices(st.choices)
      THEN <<[index |-> index, reason |-> "incomplete-choices",
              note |-> "found 1 choice",
              sample |-> Slice(st.choices[1].text, 100)]>>
      ELSE <<>>)
  \o (IF TooManyChoices(st.choices)
      THEN <<[index |-> index, reason |-> "too-many-choices",
              note |-> NumStr(Len(st.choices))]>>
      ELSE <<>>)

\* variant: the empty-stem entry takes its sample from choices[0].text
BlockThrowsInEmptyStem(b, st) ==
  EmptyStem(toPlainStem(StemHTML(st.stemParts))) /\ st.choices = <<>>

\* the one read of a property of a possibly undefined value in the loop body:
\* choices[0].text when the incomplete-choices entry is built; a TypeError if
\* choices is empty there
BlockThrows(b, st) == IncompleteChoices(st.choices) /\ st.choices = <<>>

\* the entries a block has pushed when the incomplete-choices entry is built
DiagnosticsBeforeChoices(b, i, st) ==
  SelectSeq(BlockDiagnostics(b, i, st),
            LAMBDA e : e.reason \in {"no-number", "empty-stem"})

\* variant: a block with an empty stem is reported and not emitted
RECURSIVE BuildLoopSkipEmpty(_, _, _)
BuildLoopSkipEmpty(blocks, i, r) ==
  IF i >= Len(blocks) THEN r
  ELSE LET b == blocks[i + 1]
           st == Classify(b)
           q == BuildQuestion(b, i, st)
       IN BuildLoopSkipEmpty(blocks, i + 1,
            [out |-> IF Len(q.stem) < 3 THEN r.out ELSE Append(r.out, q),
             unparsed |-> r.unparsed \o BlockDiagnostics(b, i, st)])

\* blocks.forEach: the questions built and the accumulator after every block
RECURSIVE BuildLoop(_, _, _)
BuildLoop(blocks, i, r) ==
  IF i >= Len(blocks) THEN r
  ELSE LET b == blocks[i + 1]
           st == Classify(b)
       IN BuildLoop(blocks, i + 1,
            [out |-> Append(r.out, BuildQuestion(b, i, st)),
             unparsed |-> r.unparsed \o BlockDiagnostics(b, i, st)])

\* the first block (1-based) whose loop body throws, 0 if none does
ThrowAt(blocks) ==
  LET T == {k \in 1..Len(blocks) : BlockThrows(blocks[k], Classify(blocks[k]))}
  IN IF T = {} THEN 0 ELSE CHOOSE k \in T : \A o \in T : k <= o

\* blocks.forEach as far as it gets: all blocks, or the blocks before the
\* throwing one and what that one pushed before the throw
BuildAll(blocks, acc) ==
  LET k == ThrowAt(blocks)
      r0 == [out |-> <<>>, unparsed |-> acc]
  IN IF k = 0 THEN BuildLoop(blocks, 0, r0)
     ELSE LET pre == BuildLoop(SubSeq(blocks, 1, k - 1), 0, r0) IN
       [out |-> pre.out,
        unparsed |-> pre.unparsed
                     \o DiagnosticsBeforeChoices(blocks[k], k - 1, Classify(blocks[k]))]

\* ------------------------------------------------------------------ inputs
\* paragraphs the decoder can hand over (inner HTML of a <p>)
ParaPool ==
  { <<"1", ".", " ", "W", "h", "y", "?">>,
    <<" ", "3", ")", " ", "<sup>", "x", "</sup>">>,
    <<"A", ".", " ", "<strong>", "4", "</strong>">>,
    <<"a", "n", "s", ":", " ", "B">>,
    <<"o", "r", " ", "7">>,
    <<"<br/>">>,
    <<" ">> }

\* form.get("file"): null, or a File with a MIME type and a name
NoFile == [present |-> FALSE, type |-> "", name |-> <<>>]

DocxType ==
  "application/vnd.openxmlformats-officedocument.wordprocessingml.document"

FilePool ==
  {NoFile} \cup
  {[present |-> TRUE, type |-> t, name |-> n] :
     t \in {DocxType, "application/pdf"},
     n \in {<<"q", ".", "D", "O", "C", "X">>, <<"q", ".", "p", "d", "f">>}}

\* file.name.toLowerCase().endsWith(".docx")
EndsWithDocx(name) ==
  LET suffix == <<".", "d", "o", "c", "x">>
      low == [k \in 1..Len(name) |-> ToLower(name[k])]
  IN Len(low) >= Len(suffix) /\ Drop(low, Len(low) - Len(suffix)) = suffix

\* variant: || where the source has &&
ValidateEither(f) ==
  IF ~f.present THEN "No file uploaded"
  ELSE IF f.type # DocxType \/ ~EndsWithDocx(f.name)
  THEN "Please upload a .docx file"
  ELSE ""

\* the two tests before the decoder is called: the error they answer, "" if
\* the file passes
Validate(f) ==
  IF ~f.present THEN "No file uploaded"
  ELSE IF f.type # DocxType /\ ~EndsWithDocx(f.name)
  THEN "Please upload a .docx file"
  ELSE ""

\* the documents of at most n paragraphs
DocsUpTo(n) == UNION {[1..k -> ParaPool] : k \in 0..n}

\* ------------------------------------------------------------------- state
\* Invocations of POST carry no identity the handler reads, so the
\* invocations in flight are counted per await they stand at.
VARIABLES
  unparsed,   \* the module-level diagnostics list of route.ts
  inForm,     \* invocations waiting for req.formData()
  inDecode,   \* invocations waiting for file.arrayBuffer() / mammoth
  calls,      \* invocations started so far
  decoded,    \* paragraphs decoded so far, over all invocations
  last,       \* the response sent last, with the lines it was computed from
              \* (a rejection: with the file that was tested)
  pdf,        \* api/pdf-pages: the response sent last, with its request
  trip,       \* a page list on its way from the client's compressRanges to
              \* the server's parsePagesList
  ui          \* the state of the DocxToQuestions component

docxVars == <<unparsed, inForm, inDecode, calls, decoded, last>>

pdfVars == <<pdf, trip>>

vars == <<unparsed, inForm, inDecode, calls, decoded, last, pdf, trip, ui>>

NoResponse ==
  [status |-> 0, error |-> "", file |-> NoFile, diag |-> FALSE,
   questions |-> <<>>, unparsed |-> <<>>,
   stats |-> [totalBlocks |-> 0, parsed |-> 0, unparsed |-> 0],
   lines |-> <<>>, blocks |-> <<>>, pushed |-> <<>>]

\* variant: the { status } argument of NextResponse.json is left out
ErrorResponseNoStatus(status, msg) ==
  [NoResponse EXCEPT !.status = 200, !.error = msg]

\* NextResponse.json({ error: msg }, { status })
ErrorResponse(status, msg) ==
  [NoResponse EXCEPT !.status = status, !.error = msg]

\* err?.message ?? "Conversion failed" for what the decoder may throw: an
\* Error with a message (here the one for a file that is no zip archive), or
\* a value without one
DecoderErrors ==
  {"Can't find end of central directory : is this a zip file ?",
   "Conversion failed"}

\* lines 112-309: everything after the decoder's promise resolved, up to the
\* response (or to a throw); acc is the diagnostics list the invocation finds
Pipeline(paras, acc) ==
  LET lines == ExtractLines(paras)
      segmented == Segment(lines)
      audited == Audit(segmented, acc)
      blocks == FallbackWrap(segmented, lines)
      built == BuildAll(blocks, audited)
  IN [lines |-> lines, blocks |-> blocks, out |-> built.out,
      unparsed |-> built.unparsed, threw |-> ThrowAt(blocks) # 0]

\* variant: stats.unparsed counts the indices that have an entry
OkResponseCountIndices(res, acc, withDiagnostics) ==
  [status |-> 200, error |-> "", file |-> NoFile, diag |-> withDiagnostics,
   questions |-> res.out,
   unparsed |-> IF withDiagnostics THEN res.unparsed ELSE <<>>,
   stats |-> IF withDiagnostics
             THEN [totalBlocks |-> Len(res.blocks), parsed |-> Len(res.out),
                   unparsed |->
                     Cardinality({res.unparsed[k].index :
                                    k \in 1..Len(res.unparsed)})]
             ELSE NoResponse.stats,
   lines |-> res.lines, blocks |-> res.blocks,
   pushed |-> Drop(res.unparsed, Len(acc))]

\* NextResponse.json(...) of a finished conversion: the body is serialised
\* when the response is built.  lines, blocks and pushed (the entries this
\* invocation appended) are kept beside the body for the properties.
OkResponse(res, acc, withDiagnostics) ==
  [status |-> 200, error |-> "", file |-> NoFile, diag |-> withDiagnostics,
   questions |-> res.out,
   unparsed |-> IF withDiagnostics THEN res.unparsed ELSE <<>>,
   stats |-> IF withDiagnostics
             THEN [totalBlocks |-> Len(res.blocks), parsed |-> Len(res.out),
                   unparsed |-> Len(res.unparsed)]
             ELSE NoResponse.stats,
   lines |-> res.lines, blocks |-> res.blocks,
   pushed |-> Drop(res.unparsed, Len(acc))]

\* catch (err): a throw inside the pipeline answers 500 with the TypeError's
\* message; what was pushed before the throw stays in the list
ThrowResponse(res, acc) ==
  [ErrorResponse(500, "Cannot read properties of undefined (reading 'text')")
     EXCEPT !.lines = res.lines, !.blocks = res.blocks,
            !.pushed = Drop(res.unparsed, Len(acc))]

\* the response of an invocation whose decoder resolved
Respond(res, acc, withDiagnostics) ==
  IF res.threw THEN ThrowResponse(res, acc)
  ELSE OkResponse(res, acc, withDiagnostics)

\* What one run of the pipeline appends does not depend on what the list
\* already holds (it is only ever pushed to), so the run of every document is
\* computed once, from an empty list.
Conversions ==
  {[paras |-> p, res |-> Pipeline(p, <<>>)] : p \in DocsUpTo(MaxParas)}

\* ------------------------------------------------------- given documents
\* the worked example of a multiple-choice question
DocTwoChoices ==
  << <<"1", ".", " ", "W", "h", "a", "t", " ", "i", "s", " ", "2", "+", "2", "?">>,
     <<"A", ".", " ", "3">>,
     <<"B", ".", " ", "4">>,
     <<"A", "n", "s", "w", "e", "r", ":", " ", "B">> >>

\* the worked example of a free-response question
DocEssay ==
  << <<"1", ".", " ", "E", "s", "s", "a", "y", " ", "q", "u", "e", "s", "t", "i", "o", "n", ".">>,
     <<"W", "r", "i", "t", "e", " ", "5", "0", "0", " ", "w", "o", "r", "d", "s", ".">> >>

\* the same question with its number set in bold type
DocBoldNumber ==
  << <<"<strong>", "1", ".", "</strong>", " ", "E", "s", "s", "a", "y", " ", "q", "u", "e", "s", "t", "i", "o", "n", ".">>,
     <<"W", "r", "i", "t", "e", " ", "5", "0", "0", " ", "w", "o", "r", "d", "s", ".">> >>

\* a question with one choice, and one whose stem is a single letter
DocOneChoice ==
  << <<"1", ".", " ", "P", "i", "c", "k", ".">>,
     <<"A", ".", " ", "o", "n", "l", "y", " ", "o", "n", "e">>,
     <<"2", ".", " ", "x">>,
     <<"A", ".", " ", "o", "n", "l", "y", " ", "o", "n", "e">> >>

\* a question with eight choices
DocEightChoices ==
  << <<"1", ".", " ", "P", "i", "c", "k", " ", "o", "n", "e", ".">>,
     <<"A", ".", " ", "a">>,
     <<"B", ".", " ", "b">>,
     <<"C", ".", " ", "c">>,
     <<"D", ".", " ", "d">>,
     <<"E", ".", " ", "e">>,
     <<"F", ".", " ", "f">>,
     <<"G", ".", " ", "g">>,
     <<"H", ".", " ", "h">> >>

\* a question with nine choices
DocNineChoices ==
  << <<"1", ".", " ", "P", "i", "c", "k", " ", "o", "n", "e", ".">>,
     <<"A", ".", " ", "a">>,
     <<"B", ".", " ", "b">>,
     <<"C", ".", " ", "c">>,
     <<"D", ".", " ", "d">>,
     <<"E", ".", " ", "e">>,
     <<"F", ".", " ", "f">>,
     <<"G", ".", " ", "g">>,
     <<"H", ".", " ", "h">>,
     <<"A", ")", " ", "i">> >>

\* a document without numbering
DocUnnumbered ==
  << <<"P", "i", "c", "k", " ", "o", "n", "e", ".">>,
     <<"A", ".", " ", "x">>,
     <<"B", ".", " ", "y">> >>

\* a question with repeated and unordered keys, a continued choice, and text
\* after the answer key
DocContinuations ==
  << <<"1", ".", " ", "P", "i", "c", "k", ".">>,
     <<"B", ".", " ", "t", "w", "o">>,
     <<"A", ".", " ", "o", "n", "e">>,
     <<"<em>", "m", "o", "r", "e", "</em>">>,
     <<"B", ".", " ", "a", "g", "a", "i", "n">>,
     <<"A", "n", "s", "w", "e", "r", ":", " ", "A">>,
     <<"a", "f", "t", "e", "r", " ", "k", "e", "y">>,
     <<"a", "n", "d", " ", "m", "o", "r", "e">> >>

GivenDocs ==
  {DocTwoChoices,
   DocEssay,
   DocBoldNumber,
   DocOneChoice,
   DocEightChoices,
   DocNineChoices,
   DocUnnumbered,
   DocContinuations}

\* the runs of the given documents, each computed once from an empty list
GivenConversions ==
  {[paras |-> p, res |-> Pipeline(p, <<>>)] : p \in GivenDocs}

\* no request to api/pdf-pages answered yet
NoPdf ==
  [step |-> "none", file |-> NoFile, loaded |-> FALSE,
   status |-> 0, error |-> "", action |-> "", total |-> 0, mode |-> "",
   pages |-> <<>>, selected |-> <<>>, pageCount |-> Null, keptPages |-> <<>>,
   filename |-> <<>>, document |-> FALSE]

\* no page list under way
NoTrip == [step |-> "none", max |-> 0, nums |-> <<>>, pages |-> <<>>, parsed |-> <<>>]

\* null and array values of the data state
NullData == [isNull |-> TRUE, questions |-> <<>>]

ArrayData(questions) == [isNull |-> FALSE, questions |-> questions]

\* null and object values of the diag state
NullDiag ==
  [isNull |-> TRUE, questions |-> <<>>, unparsed |-> <<>>,
   stats |-> [totalBlocks |-> 0, parsed |-> 0, unparsed |-> 0]]

\* the jsonText state: "", or the text of a question list
NoText == [kind |-> "empty", of |-> <<>>]

\* the component as mounted: the initial values of its useState hooks.  A
\* file is its name, <<>> for null; a status is its text, <<>> for null.
\* pending is the file of the fetch in flight and dataFrom the file whose
\* conversion data holds (neither is a state of the component).
NoUi ==
  [file |-> <<>>, busy |-> FALSE, status |-> <<>>, panel |-> "preview",
   diag |-> NullDiag, jsonText |-> NoText, data |-> NullData,
   showPreview |-> TRUE, pending |-> <<>>, dataFrom |-> <<>>]

InitDocx ==
  /\ unparsed = <<>>
  /\ inForm = 0
  /\ inDecode = 0
  /\ calls = 0
  /\ decoded = 0
  /\ last = NoResponse

Init ==
  /\ InitDocx
  /\ pdf = NoPdf
  /\ trip = NoTrip
  /\ ui = NoUi

\* POST is invoked and waits for req.formData()
Receive ==
  /\ calls < MaxCalls
  /\ calls' = calls + 1
  /\ inForm' = inForm + 1
  /\ UNCHANGED <<unparsed, inDecode, decoded, last>>
  /\ UNCHANGED <<pdfVars, ui>>

\* a response to a file that fails a test; file records the file tested
RejectResponse(f) == [ErrorResponse(400, Validate(f)) EXCEPT !.file = f]

\* if (!file) return 400
RejectNoFile ==
  /\ inForm > 0
  /\ \E f \in FilePool :
       /\ Validate(f) = "No file uploaded"
       /\ last' = RejectResponse(f)
  /\ inForm' = inForm - 1
  /\ UNCHANGED <<unparsed, inDecode, calls, decoded>>
  /\ UNCHANGED <<pdfVars, ui>>

\* neither the docx MIME type nor a .docx name: return 400
RejectType ==
  /\ inForm > 0
  /\ \E f \in FilePool :
       /\ Validate(f) = "Please upload a .docx file"
       /\ last' = RejectResponse(f)
  /\ inForm' = inForm - 1
  /\ UNCHANGED <<unparsed, inDecode, calls, decoded>>
  /\ UNCHANGED <<pdfVars, ui>>

\* the file passes both tests; the handler waits for arrayBuffer() and mammoth
Accept ==
  /\ inForm > 0
  /\ \E f \in FilePool : Validate(f) = ""
  /\ inForm' = inForm - 1
  /\ inDecode' = inDecode + 1
  /\ UNCHANGED <<unparsed, calls, decoded, last>>
  /\ UNCHANGED <<pdfVars, ui>>

\* mammoth.convertToHtml rejects: the catch block answers 500
DecodeFail ==
  /\ inDecode > 0
  /\ inDecode' = inDecode - 1
  /\ \E msg \in DecoderErrors : last' = ErrorResponse(500, msg)
  /\ UNCHANGED <<unparsed, inForm, calls, decoded>>
  /\ UNCHANGED <<pdfVars, ui>>

\* what POST does once mammoth has resolved with the paragraphs c.paras: the
\* rest of the handler runs without another await and pushes its entries to
\* the module-level list
Converting(c, withDiagnostics) ==
  LET res == [c.res EXCEPT !.unparsed = unparsed \o @] IN
    /\ unparsed' = res.unparsed
    /\ last' = Respond(res, unparsed, withDiagnostics)
    /\ decoded' = decoded + Len(c.paras)
    /\ inDecode' = inDecode - 1
    /\ UNCHANGED <<inForm, calls>>
    /\ UNCHANGED <<pdfVars, ui>>

\* mammoth resolves with a document of the pool, within the paragraph budget
Convert ==
  /\ inDecode > 0
  /\ \E c \in Conversions, withDiagnostics \in BOOLEAN :
       /\ Len(c.paras) <= MaxParas - decoded
       /\ Converting(c, withDiagnostics)

\* mammoth resolves with one of the given documents
ConvertGiven ==
  /\ inDecode > 0
  /\ \E c \in GivenConversions, withDiagnostics \in BOOLEAN :
       Converting(c, withDiagnostics)

Next ==
  \/ Receive
  \/ RejectNoFile
  \/ RejectType
  \/ Accept
  \/ DecodeFail
  \/ Convert

Spec == Init /\ [][Next]_vars

\* the handler fed with the given documents only
NextGiven ==
  \/ Receive
  \/ RejectNoFile
  \/ RejectType
  \/ Accept
  \/ DecodeFail
  \/ ConvertGiven

SpecGiven == Init /\ [][NextGiven]_vars

\* ------------------------------------------------- api/pdf-pages: page lists
IsPageSep(c) == c = "," \/ IsSpace(c)

\* index of the first separator of s at or after i (Len(s)+1 if none)
RECURSIVE NextSep(_, _)
NextSep(s, i) ==
  IF i <= Len(s) /\ ~IsPageSep(s[i]) THEN NextSep(s, i + 1) ELSE i

\* index of the first non-separator of s at or after i (Len(s)+1 if none)
RECURSIVE SkipSeps(_, _)
SkipSeps(s, i) ==
  IF i <= Len(s) /\ IsPageSep(s[i]) THEN SkipSeps(s, i + 1) ELSE i

\* s.split(/[,\s]+/): the pieces between the runs of separators, an empty
\* piece where s starts or ends with a run
RECURSIVE SplitParts(_)
SplitParts(s) ==
  LET i == NextSep(s, 1) IN
    IF i > Len(s) THEN <<s>>
    ELSE <<SubSeq(s, 1, i - 1)>> \o SplitParts(Drop(s, SkipSeps(s, i) - 1))

AllDigits(p) == p # <<>> /\ \A k \in 1..Len(p) : IsDigit(p[k])

\* part.match(/^(\d+)(?:-(\d+))?$/): m[1] and m[2] (<<>> if absent)
MatchRange(part) ==
  LET n == DigitRun(part, 1) IN
    IF n = 0 THEN [ok |-> FALSE, a |-> <<>>, b |-> <<>>]
    ELSE IF n = Len(part)
    THEN [ok |-> TRUE, a |-> part, b |-> <<>>]
    ELSE IF part[n + 1] = "-" /\ AllDigits(Drop(part, n + 1))
    THEN [ok |-> TRUE, a |-> SubSeq(part, 1, n), b |-> Drop(part, n + 1)]
    ELSE [ok |-> FALSE, a |-> <<>>, b |-> <<>>]

Min2(x, y) == IF x <= y THEN x ELSE y

Max2(x, y) == IF x >= y THEN x ELSE y

\* Math.max(1, Math.min(max, n))
Clamp(n, max) == Max2(1, Min2(max, n))

\* the pages one piece adds to out
PagesOfPart(part, max) ==
  LET m == MatchRange(part) IN
    IF part = <<>> \/ ~m.ok THEN {}
    ELSE LET a0 == ParseInt(m.a)
             b0 == IF m.b # <<>> THEN ParseInt(m.b) ELSE a0
             a == Clamp(Min2(a0, b0), max)
             b == Clamp(Max2(a0, b0), max)
         IN a..b

\* Array.from(set).sort((x, y) => x - y)
SortedSeq(S) ==
  [k \in 1..Cardinality(S) |->
     CHOOSE m \in S : Cardinality({o \in S : o < m}) = k - 1]

parsePagesList(input, max) ==
  LET s == Trim(input) IN
    IF s = <<>> THEN <<>>
    ELSE LET parts == SplitParts(s) IN
           SortedSeq(UNION {PagesOfPart(parts[k], max) : k \in 1..Len(parts)})

\* ---------------------------------------------- api/pdf-pages: POST handler
\* the strings the "pages" field is drawn from
PageChars == {"0", "1", "3", "-", ",", " ", "x"}

PageInputs == UNION {[1..n -> PageChars] : n \in 0..MaxInput}

PdfType == "application/pdf"

PdfFilePool ==
  {NoFile} \cup
  {[present |-> TRUE, type |-> t, name |-> n] :
     t \in {PdfType, "text/plain"},
     n \in {<<"a", ".", "P", "D", "F">>, <<".", "p", "d", "f">>}}
    \cup {[present |-> TRUE, type |-> "text/plain",
           name |-> <<"a", ".", "t", "x", "t">>]}

\* file.name.toLowerCase().endsWith(".pdf"), and /\.pdf$/i
EndsWithPdf(name) ==
  LET suffix == <<".", "p", "d", "f">>
      low == [k \in 1..Len(name) |-> ToLower(name[k])]
  IN Len(low) >= Len(suffix) /\ Drop(low, Len(low) - Len(suffix)) = suffix

\* the two tests before the document is loaded: the error, "" if none
ValidatePdf(f) ==
  IF ~f.present THEN "No file uploaded"
  ELSE IF f.type # PdfType /\ ~EndsWithPdf(f.name)
  THEN "Please upload a .pdf file"
  ELSE ""

\* String(form.get("mode") || "keep")
ModeOf(field) == IF field = "" THEN "keep" ELSE field

\* variant: an empty selection in delete mode is an error as well
KeepOfNonEmpty(mode, selected, total) ==
  IF mode = "keep" \/ selected = <<>> THEN selected
  ELSE SortedSeq((1..total) \ {selected[k] : k \in 1..Len(selected)})

\* the pages to keep: the selection, or in any other mode the pages of
\* 1..total outside it, in ascending order
KeepOf(mode, selected, total) ==
  IF mode = "keep" THEN selected
  ELSE SortedSeq((1..total) \ {selected[k] : k \in 1..Len(selected)})

\* (file.name.replace(/\.pdf$/i, "") || "edited") + suffix + ".pdf"
OutName(name, mode) ==
  LET base == IF EndsWithPdf(name) THEN SubSeq(name, 1, Len(name) - 4) ELSE name
  IN (IF base = <<>> THEN <<"e", "d", "i", "t", "e", "d">> ELSE base)
     \o <<IF mode = "keep" THEN "-pages-kept" ELSE "-pages-deleted">>
     \o <<".", "p", "d", "f">>

\* a request whose form has been read: the file and the action field
PdfReceived(f, action) ==
  [NoPdf EXCEPT !.step = "received", !.file = f, !.action = action]

PdfError(req, status, msg) ==
  [req EXCEPT !.step = "answered", !.status = status, !.error = msg]

\* the edit branch, from parsePagesList to the response; out.copyPages throws
\* a TypeError when handed the index of a page the document does not have
EditResponse(req, total, modeField, pages) ==
  LET mode == ModeOf(modeField)
      selected == parsePagesList(pages, total)
      keep == KeepOf(mode, selected, total)
      read == [req EXCEPT !.loaded = TRUE, !.total = total,
                          !.mode = modeField, !.pages = pages,
                          !.selected = selected]
  IN IF keep = <<>>
     THEN PdfError(read, 400, "No pages to keep after edit.")
     ELSE IF \E k \in 1..Len(keep) : keep[k] > total
     THEN PdfError(read, 500,
                   "Cannot read properties of undefined (reading 'node')")
     ELSE [read EXCEPT !.step = "answered", !.status = 200,
                       !.pageCount = total, !.keptPages = keep,
                       !.filename = OutName(req.file.name, mode),
                       !.document = TRUE]

\* POST is invoked: req.formData() resolves with the file and the action
\* field, "inspect" when the field is absent
PdfReceive ==
  /\ pdf.step # "received"
  /\ \E f \in PdfFilePool, action \in {"inspect", "edit"} :
       pdf' = PdfReceived(f, action)
  /\ UNCHANGED <<docxVars, trip, ui>>

PdfRejectNoFile ==
  /\ pdf.step = "received"
  /\ ValidatePdf(pdf.file) = "No file uploaded"
  /\ pdf' = PdfError(pdf, 400, ValidatePdf(pdf.file))
  /\ UNCHANGED <<docxVars, trip, ui>>

PdfRejectType ==
  /\ pdf.step = "received"
  /\ ValidatePdf(pdf.file) = "Please upload a .pdf file"
  /\ pdf' = PdfError(pdf, 400, ValidatePdf(pdf.file))
  /\ UNCHANGED <<docxVars, trip, ui>>

\* PDFDocument.load rejects: the catch block answers 500
PdfLoadFail ==
  /\ pdf.step = "received"
  /\ ValidatePdf(pdf.file) = ""
  /\ pdf' = PdfError(pdf, 500, "Edit failed")
  /\ UNCHANGED <<docxVars, trip, ui>>

\* action "inspect": the page count of the loaded document
PdfInspect ==
  /\ pdf.step = "received"
  /\ ValidatePdf(pdf.file) = ""
  /\ pdf.action = "inspect"
  /\ \E total \in 0..MaxTotal :
       pdf' = [pdf EXCEPT !.step = "answered", !.status = 200,
                          !.loaded = TRUE, !.total = total,
                          !.pageCount = total]
  /\ UNCHANGED <<docxVars, trip, ui>>

\* any other action: the edit of the loaded document of total pages, with the
\* mode and pages fields of the form
PdfEdit ==
  /\ pdf.step = "received"
  /\ ValidatePdf(pdf.file) = ""
  /\ pdf.action # "inspect"
  /\ \E total \in 0..MaxTotal, modeField \in {"", "keep", "delete"},
        pages \in PageInputs :
       pdf' = EditResponse(pdf, total, modeField, pages)
  /\ UNCHANGED <<docxVars, trip, ui>>

InitPdf ==
  /\ InitDocx
  /\ pdf = NoPdf
  /\ trip = NoTrip
  /\ ui = NoUi

NextPdf ==
  \/ PdfReceive
  \/ PdfRejectNoFile
  \/ PdfRejectType
  \/ PdfLoadFail
  \/ PdfInspect
  \/ PdfEdit

SpecPdf == InitPdf /\ [][NextPdf]_vars

\* ------------------------------------------ PdfPagePicker: compressRanges
\* variant: the dash of a range left out
RangeTextNoDash(start, prev) ==
  IF start = prev THEN NumStr(start) ELSE NumStr(start) \o NumStr(prev)

\* start === prev ? `${start}` : `${start}-${prev}`
RangeText(start, prev) ==
  IF start = prev THEN NumStr(start)
  ELSE NumStr(start) \o <<"-">> \o NumStr(prev)

\* the for loop of compressRanges from position i (1-based), and the push
\* after it
RECURSIVE CompressLoop(_, _, _, _, _)
CompressLoop(nums, i, start, prev, out) ==
  IF i > Len(nums) THEN Append(out, RangeText(start, prev))
  ELSE LET n == nums[i] IN
         IF n = prev + 1 THEN CompressLoop(nums, i + 1, start, n, out)
         ELSE CompressLoop(nums, i + 1, n, n, Append(out, RangeText(start, prev)))

compressRanges(nums) ==
  IF nums = <<>> THEN <<>>
  ELSE Join(CompressLoop(nums, 2, nums[1], nums[1], <<>>), <<",">>)

\* the ticked pages of a document of max pages, as apply() sorts them
Ticked(max, S) ==
  [NoTrip EXCEPT !.step = "ticked", !.max = max, !.nums = SortedSeq(S)]

InitTrip ==
  /\ InitDocx
  /\ pdf = NoPdf
  /\ ui = NoUi
  /\ \E max \in 0..MaxTick : \E S \in SUBSET (1..max) : trip = Ticked(max, S)

\* apply(): the pages field is compressRanges of the sorted selection
Compress ==
  /\ trip.step = "ticked"
  /\ trip' = [trip EXCEPT !.step = "sent", !.pages = compressRanges(trip.nums)]
  /\ UNCHANGED <<docxVars, pdf, ui>>

\* POST: the server parses the pages field against the same page count
ParseBack ==
  /\ trip.step = "sent"
  /\ trip' = [trip EXCEPT !.step = "parsed",
                          !.parsed = parsePagesList(trip.pages, trip.max)]
  /\ UNCHANGED <<docxVars, pdf, ui>>

NextTrip ==
  \/ Compress
  \/ ParseBack

SpecTrip == InitTrip /\ [][NextTrip]_vars

\* ------------------------------------------------ DocxToQuestions component
\* what the file input can hand to onPick: nothing (<<>>), or a file
PickPool ==
  {<<>>, <<"a", ".", "d", "o", "c", "x">>, <<"b", ".", "D", "O", "C", "X">>,
   <<"c", ".", "t", "x", "t">>}

\* the questions the server returns for a file, as many as it found
QuestionsOf(f, n) == [k \in 1..n |-> [id |-> <<"Q">> \o NumStr(k), index |-> k]]

\* the body of a 200 response to a request with withDiagnostics = 1
PayloadOf(f, n) ==
  [questions |-> QuestionsOf(f, n), unparsed |-> <<>>,
   stats |-> [totalBlocks |-> n, parsed |-> n, unparsed |-> 0]]

\* JSON.stringify(questions, null, 2)
Stringify(questions) == [kind |-> "json", of |-> questions]

\* `Done. Parsed ${n} question${n === 1 ? "" : "s"}.`
DoneStatus(n) ==
  <<"Done. Parsed ">> \o NumStr(n) \o <<" question">>
    \o (IF n = 1 THEN <<>> ELSE <<"s">>) \o <<".">>

\* the message of what convert() catches: the error field of a 400 or 500
\* body, "Convert failed" without one, or the TypeError of a failed fetch
ConvertErrors ==
  {<<"Please upload a .docx file">>, <<"Conversion failed">>,
   <<"Convert failed">>, <<"Failed to fetch">>}

\* onPick(f), the onChange of the file input (never disabled)
OnPick ==
  /\ \E f \in PickPool :
       LET cleared == [ui EXCEPT !.status = <<>>, !.jsonText = NoText,
                                 !.data = NullData, !.dataFrom = <<>>,
                                 !.showPreview = TRUE]
       IN ui' = IF f = <<>> THEN [cleared EXCEPT !.file = <<>>]
                ELSE IF ~EndsWithDocx(f)
                THEN [cleared EXCEPT !.status = <<"Please select a .docx file.">>,
                                     !.file = <<>>]
                ELSE [cleared EXCEPT !.file = f]
  /\ UNCHANGED <<docxVars, pdfVars>>

\* convert() up to the await of fetch; the button is disabled without a file
\* and while busy
ConvertStart ==
  /\ ui.file # <<>>
  /\ ~ui.busy
  /\ ui' = [ui EXCEPT !.busy = TRUE, !.status = <<"Converting...">>,
                      !.jsonText = NoText, !.data = NullData,
                      !.dataFrom = <<>>, !.diag = NullDiag,
                      !.pending = ui.file]
  /\ UNCHANGED <<docxVars, pdfVars>>

\* the response is a 200 with n questions: the rest of the try block, finally
ConvertDone ==
  /\ ui.pending # <<>>
  /\ \E n \in 0..MaxQuestions :
       LET payload == PayloadOf(ui.pending, n) IN
         ui' = [ui EXCEPT !.data = ArrayData(payload.questions),
                          !.dataFrom = ui.pending,
                          !.jsonText = Stringify(payload.questions),
                          !.diag = [isNull |-> FALSE,
                                    questions |-> payload.questions,
                                    unparsed |-> payload.unparsed,
                                    stats |-> payload.stats],
                          !.status = DoneStatus(n),
                          !.busy = FALSE,
                          !.pending = <<>>]
  /\ UNCHANGED <<docxVars, pdfVars>>

\* convert() whose catch is not followed by the finally block
ConvertFailKeepsBusy ==
  /\ ui.pending # <<>>
  /\ \E msg \in ConvertErrors :
       ui' = [ui EXCEPT !.status = msg, !.pending = <<>>]
  /\ UNCHANGED <<docxVars, pdfVars>>

\* the response is not ok, or fetch rejects: catch, finally
ConvertFail ==
  /\ ui.pending # <<>>
  /\ \E msg \in ConvertErrors :
       ui' = [ui EXCEPT !.status = msg, !.busy = FALSE, !.pending = <<>>]
  /\ UNCHANGED <<docxVars, pdfVars>>

\* reset(); the button is disabled while busy
Reset ==
  /\ ~ui.busy
  /\ ui' = [ui EXCEPT !.file = <<>>, !.jsonText = NoText,
                      !.data = NullData, !.dataFrom = <<>>,
                      !.showPreview = TRUE, !.status = <<>>]
  /\ UNCHANGED <<docxVars, pdfVars>>

\* the Preview and Raw JSON buttons, disabled without data
SetShowPreview ==
  /\ ~ui.data.isNull
  /\ \E b \in BOOLEAN : ui' = [ui EXCEPT !.showPreview = b]
  /\ UNCHANGED <<docxVars, pdfVars>>

\* the Diagnostics button, disabled without diag
ShowDiagnostics ==
  /\ ~ui.diag.isNull
  /\ ui' = [ui EXCEPT !.panel = "diag"]
  /\ UNCHANGED <<docxVars, pdfVars>>

\* copyJSON(), reachable while the raw JSON is shown
CopyJSON ==
  /\ ~ui.data.isNull
  /\ ~ui.showPreview
  /\ \E msg \in {<<"JSON copied">>, <<"Copy failed.">>} :
       ui' = [ui EXCEPT !.status = msg]
  /\ UNCHANGED <<docxVars, pdfVars>>

\* the textarea's onChange: setJsonText of what was typed
EditJson ==
  /\ ~ui.data.isNull
  /\ ~ui.showPreview
  /\ ui' = [ui EXCEPT !.jsonText = [kind |-> "typed", of |-> <<>>]]
  /\ UNCHANGED <<docxVars, pdfVars>>

InitUi ==
  /\ InitDocx
  /\ pdf = NoPdf
  /\ trip = NoTrip
  /\ ui = NoUi

NextUi ==
  \/ OnPick
  \/ ConvertStart
  \/ ConvertDone
  \/ ConvertFail
  \/ Reset
  \/ SetShowPreview
  \/ ShowDiagnostics
  \/ CopyJSON
  \/ EditJson

SpecUi == InitUi /\ [][NextUi]_vars

\* a fetch settles: the server answers or the request fails
Settle == ConvertDone \/ ConvertFail

SpecUiFair == SpecUi /\ WF_vars(Settle)

\* ---------------------------------------------------------------- properties
Converted == last.status = 200

BlockIdx == 1..Len(last.blocks)

NoLineNumbered(lines) == \A k \in 1..Len(lines) : ~Q_START(lines[k].text).ok

DeclaredNums(blocks) == {blocks[k].num : k \in 1..Len(blocks)} \ {Null}

BlocksDeclaring(blocks, n) == {k \in 1..Len(blocks) : blocks[k].num = n}

CountEntries(q, reason, n) ==
  Cardinality({k \in 1..Len(q) : q[k].reason = reason /\ q[k].index = n})

EntryIndices(q, reason) == {q[k].index : k \in {j \in 1..Len(q) : q[j].reason = reason}}

ChoiceLines(lines) ==
  {j \in 1..Len(lines) : CHOICE(Trim(lines[j].text)).ok}

AnswerLines(lines) ==
  {j \in 1..Len(lines) :
     ~CHOICE(Trim(lines[j].text)).ok /\ ANSWER(Trim(lines[j].text)).ok}

\* C1: a conversion of a non-empty line sequence yields at least one block and
\* one question; when no line carries a numbering prefix the only block is the
\* unnumbered block holding the whole line sequence.
C1_FallbackWrap ==
  (Converted /\ last.lines # <<>>) =>
    /\ Len(last.blocks) >= 1
    /\ Len(last.questions) >= 1
    /\ (NoLineNumbered(last.lines) =>
          last.blocks = <<[num |-> Null, lines |-> last.lines]>>)

C1_Witness ==
  /\ Converted
  /\ Len(last.lines) >= 2
  /\ NoLineNumbered(last.lines)
  /\ Len(last.questions) = 1

\* C2: the diagnostics and stats.unparsed of a response are exactly the
\* entries produced by that invocation from its own document.
C2_OwnDiagnosticsOnly ==
  (Converted /\ last.diag) =>
    /\ last.unparsed = last.pushed
    /\ last.stats.unparsed = Len(last.pushed)

\* C3: two conversions in a row of the same line sequence return the same
\* questions and the same diagnostics (entries, order, stats).
C3_Idempotent ==
  [][(/\ last.status = 200
      /\ last'.status = 200
      /\ last'.lines = last.lines
      /\ last'.diag = last.diag)
     => (/\ last'.questions = last.questions
         /\ last'.unparsed = last.unparsed
         /\ last'.stats = last.stats)]_vars

\* C4: in a response with diagnostics stats.parsed = stats.totalBlocks, both
\* being the number of blocks, each block having produced one question.
C4_ParsedEqualsTotal ==
  (Converted /\ last.diag) =>
    /\ last.stats.parsed = last.stats.totalBlocks
    /\ last.stats.totalBlocks = Len(last.blocks)
    /\ last.stats.parsed = Len(last.questions)

C4_Witness ==
  /\ Converted
  /\ last.diag
  /\ last.stats.totalBlocks >= 2
  /\ \E k \in 1..Len(last.questions) : last.questions[k].stem = <<"x">>

\* C5: the k-th question is built from the k-th block; its index is the
\* block's declared number, or k when the block declares none.
C5_OneToOneInOrder ==
  Converted =>
    /\ Len(last.questions) = Len(last.blocks)
    /\ \A k \in BlockIdx :
         LET b == last.blocks[k]
             q == last.questions[k]
             st == Classify(b)
         IN /\ q.index = (IF b.num # Null THEN b.num ELSE k)
            /\ q.id = <<"Q">> \o NumStr(q.index)
            /\ q.choices = st.choices
            /\ q.stem = toPlainStem(StemHTML(st.stemParts))

C5_Witness ==
  /\ Converted
  /\ Len(last.blocks) >= 2
  /\ last.blocks[1].num = 3
  /\ last.questions[1].index = 3
  /\ last.questions[2].index = 1

\* C6 as stated: the first line of every block goes to the stem and creates
\* no choice and sets no answer, whatever its text.
C6_FirstLineDominates ==
  Converted =>
    \A k \in BlockIdx :
      LET b == last.blocks[k]
          st == ClassifyLine(InitClassify, b.lines[1], 0)
      IN /\ Len(st.stemParts) = 1
         /\ st.choices = <<>>
         /\ ~st.answerSet
         /\ st.currentChoice = 0
         /\ Len(last.questions[k].choices) = Cardinality(ChoiceLines(b.lines) \ {1})

\* C6 amended: the choice and the answer pattern are tested before the
\* first-line rule.  A first line goes to the stem exactly when it matches
\* neither; one matching the choice pattern creates a choice, one matching the
\* answer pattern sets the answer.  The first line of a numbered block
\* matches neither, so it always goes to the stem.
C6_ChoiceAnswerBeforeFirstLine ==
  Converted =>
    \A k \in BlockIdx :
      LET b == last.blocks[k]
          st == ClassifyLine(InitClassify, b.lines[1], 0)
      IN /\ st.currentChoice = (IF 1 \in ChoiceLines(b.lines) THEN 1 ELSE 0)
         /\ Len(st.choices) = (IF 1 \in ChoiceLines(b.lines) THEN 1 ELSE 0)
         /\ st.answerSet = (1 \in AnswerLines(b.lines))
         /\ Len(st.stemParts) =
              (IF 1 \in ChoiceLines(b.lines) \cup AnswerLines(b.lines) THEN 0 ELSE 1)
         /\ (b.num # Null => 1 \notin ChoiceLines(b.lines) \cup AnswerLines(b.lines))
         /\ Len(last.questions[k].choices) = Cardinality(ChoiceLines(b.lines))

C6_Witness ==
  /\ Converted
  /\ Len(last.blocks) = 1
  /\ last.blocks[1].num = Null
  /\ 1 \in ChoiceLines(last.blocks[1].lines)
  /\ Len(last.blocks[1].lines) >= 2
  /\ Len(last.questions[1].choices) >= 1
  /\ last.questions[1].choices[1].key = "A"

\* C7: a question is MULTIPLE_CHOICE exactly when it has two or more choices,
\* and FREE_RESPONSE otherwise.
C7_TypeByChoiceCount ==
  Converted =>
    \A k \in 1..Len(last.questions) :
      LET q == last.questions[k] IN
        /\ q.type \in {"MULTIPLE_CHOICE", "FREE_RESPONSE"}
        /\ (q.type = "MULTIPLE_CHOICE") <=> (Len(q.choices) >= 2)

C7_Witness ==
  /\ Converted
  /\ \E k \in 1..Len(last.questions) :
       /\ Len(last.questions[k].choices) = 2
       /\ last.questions[k].type = "MULTIPLE_CHOICE"
       /\ last.blocks[k].num # Null

\* C8: every emitted question has the empty string as answer, whatever answer
\* lines its block holds.
C8_AnswerAlwaysEmpty ==
  Converted =>
    \A k \in 1..Len(last.questions) : last.questions[k].answer = <<>>

C8_Witness ==
  /\ Converted
  /\ \E k \in BlockIdx :
       /\ Cardinality(AnswerLines(last.blocks[k].lines)) >= 2
       /\ Classify(last.blocks[k]).answer = <<"B">>
       /\ last.questions[k].answer = <<>>

\* C9: when some block declares a number, the audit pushes exactly one
\* missing-number entry for every integer between the least and the greatest
\* declared number that no block declares, and no other missing-number entry.
C9_MissingNumbers ==
  Converted =>
    LET P == DeclaredNums(last.blocks)
        gaps == IF P = {} THEN {} ELSE (SetMin(P)..SetMax(P)) \ P
    IN /\ EntryIndices(last.pushed, "missing-number") = gaps
       /\ \A n \in gaps : CountEntries(last.pushed, "missing-number", n) = 1

C9_Witness ==
  /\ Converted
  /\ DeclaredNums(last.blocks) = {1, 3}
  /\ EntryIndices(last.pushed, "missing-number") = {2}
  /\ CountEntries(last.pushed, "missing-number", 2) = 1

\* C10: every block declaring a repeated number n still yields its own
\* question with index n; the audit pushes exactly one duplicate-number entry
\* for each number declared by two or more blocks and none for the others.
C10_DuplicateNumbers ==
  Converted =>
    LET P == DeclaredNums(last.blocks)
        repeated == {n \in P : Cardinality(BlocksDeclaring(last.blocks, n)) >= 2}
    IN /\ EntryIndices(last.pushed, "duplicate-number") = repeated
       /\ \A n \in repeated :
            /\ CountEntries(last.pushed, "duplicate-number", n) = 1
            /\ \A k \in BlocksDeclaring(last.blocks, n) :
                 /\ k <= Len(last.questions)
                 /\ last.questions[k].index = n
       /\ Len(last.questions) = Len(last.blocks)

C10_Witness ==
  /\ Converted
  /\ Cardinality(BlocksDeclaring(last.blocks, 1)) >= 3
  /\ CountEntries(last.pushed, "duplicate-number", 1) = 1
  /\ \A k \in 1..3 : last.questions[k].index = 1

Distinct(f) == \A j, k \in DOMAIN f : j # k => f[j] # f[k]

\* C11: the indices of the questions of a run, and likewise their ids, are
\* pairwise distinct exactly when no two blocks declare the same number; the
\* positional index of a block that declares no number is the index of no
\* other question.
C11_IndicesDistinctIffNoDuplicate ==
  Converted =>
    LET q == last.questions
        noDuplicate == \A n \in DeclaredNums(last.blocks) :
                         Cardinality(BlocksDeclaring(last.blocks, n)) = 1
    IN /\ Distinct([k \in 1..Len(q) |-> q[k].index]) <=> noDuplicate
       /\ Distinct([k \in 1..Len(q) |-> q[k].id]) <=> noDuplicate
       /\ \A j \in BlockIdx :
            last.blocks[j].num = Null =>
              \A k \in 1..Len(q) : k # j => q[k].index # q[j].index

C11_Witness ==
  /\ Converted
  /\ Len(last.questions) = 3
  /\ last.questions[1].index = last.questions[3].index
  /\ last.questions[1].id = last.questions[3].id
  /\ last.questions[2].index # last.questions[1].index

Reasons(q) == {q[k].reason : k \in 1..Len(q)}

PerBlockReasons ==
  {"no-number", "empty-stem", "incomplete-choices", "too-many-choices"}

\* a step in which an invocation whose decoder resolved sends its response
ConvertStep ==
  /\ inDecode' = inDecode - 1
  /\ last'.error \notin DecoderErrors

\* the blocks of the pool's documents, with their 0-based positions, whose
\* classification pushes at least one entry
FlaggedBlocks ==
  {p \in UNION {{<<c.res.blocks[k], k - 1>> : k \in 1..Len(c.res.blocks)} :
                  c \in Conversions} :
     BlockDiagnostics(p[1], p[2], Classify(p[1])) # <<>>}

\* C12: whatever gaps, duplicates, empty stems or choice counts the decoded
\* lines hold, the invocation answers with status 200 and one question per
\* block; every block that pushed an entry has its question in the list.
C12_AnomaliesNeverAbort ==
  [][ConvertStep =>
       /\ last'.status = 200
       /\ last'.error = ""
       /\ Len(last'.questions) = Len(last'.blocks)
       /\ LET flagged ==
                 {k \in 1..Len(last'.blocks) :
                    /\ <<last'.blocks[k], k - 1>> \in FlaggedBlocks
                    /\ last'.questions[k].index =
                         QuestionIndex(last'.blocks[k], k - 1)}
          IN \A j \in 1..Len(last'.pushed) :
               LET e == last'.pushed[j] IN
                 e.reason \in PerBlockReasons =>
                   \E k \in flagged :
                     e.index \in {Null, last'.questions[k].index}]_vars

C12_Witness ==
  /\ Converted
  /\ Len(last.questions) = 2
  /\ {"missing-number", "empty-stem", "incomplete-choices"}
       \subseteq Reasons(last.pushed)

\* a step in which an invocation answers before the decoder is called
RejectStep ==
  /\ inForm' = inForm - 1
  /\ inDecode' = inDecode

IsDocxName(name) ==
  /\ Len(name) >= 5
  /\ name[Len(name) - 4] = "."
  /\ <<name[Len(name) - 3], name[Len(name) - 2], name[Len(name) - 1],
       name[Len(name)]>> \in {"d", "D"} \X {"o", "O"} \X {"c", "C"} \X {"x", "X"}

\* C13: an invocation with no file, or with a file that has neither the docx
\* MIME type nor a .docx name, answers 400 at once: the response has no
\* question, no line was decoded, no block built, no entry pushed; and no
\* such file passes the two tests.
C13_RejectedBeforeDecoding ==
  [][/\ RejectStep =>
          /\ last'.status = 400
          /\ \/ ~last'.file.present /\ last'.error = "No file uploaded"
             \/ /\ last'.file.present
                /\ last'.file.type # DocxType
                /\ ~IsDocxName(last'.file.name)
                /\ last'.error = "Please upload a .docx file"
          /\ last'.questions = <<>>
          /\ last'.lines = <<>>
          /\ last'.blocks = <<>>
          /\ last'.pushed = <<>>
          /\ unparsed' = unparsed
          /\ decoded' = decoded
     /\ \A f \in FilePool :
          (~f.present \/ (f.type # DocxType /\ ~IsDocxName(f.name)))
            => Validate(f) # ""]_vars

C13_Witness ==
  /\ last.status = 400
  /\ last.file.present
  /\ last.file.type = "application/pdf"
  /\ unparsed # <<>>

\* a step in which an invocation answers with the decoder's error
DecodeFailStep ==
  /\ inDecode' = inDecode - 1
  /\ last'.error \in DecoderErrors

\* C14: when the decoder throws, the invocation answers once, with status 500
\* and a body that holds the error only: no question, no diagnostics, no
\* stats; the diagnostics list is what it was before.
C14_DecodeFailure ==
  [][DecodeFailStep =>
       /\ last'.status = 500
       /\ last'.questions = <<>>
       /\ ~last'.diag
       /\ last'.unparsed = <<>>
       /\ last'.stats = NoResponse.stats
       /\ last'.pushed = <<>>
       /\ unparsed' = unparsed]_vars

C14_Witness ==
  /\ last.status = 500
  /\ last.error \in DecoderErrors
  /\ last.questions = <<>>
  /\ Len(unparsed) >= 2

\* C15: in a response with diagnostics stats.unparsed is the length of the
\* unparsed list of the same response: it counts entries, and a block that
\* contributes several entries makes it exceed stats.totalBlocks.
C15_StatsCountEntries ==
  (Converted /\ last.diag) =>
    last.stats.unparsed = Len(last.unparsed)

C15_Witness ==
  /\ Converted
  /\ last.diag
  /\ Len(last.blocks) = 1
  /\ last.pushed = last.unparsed
  /\ last.stats.unparsed = 3
  /\ last.stats.unparsed > last.stats.totalBlocks

NonSpace(s) == SelectSeq(s, LAMBDA c : ~IsSpace(c))

\* C16: the lines "1. What is 2+2?", "A. 3", "B. 4", "Answer: B" give one
\* question with index 1, type MULTIPLE_CHOICE, stem "What is 2+2?", the
\* choices A and B, answer "", and the response's diagnostics list is empty.
C16_WorkedExample ==
  (Converted /\ last.diag /\ last.lines = ExtractLines(DocTwoChoices)) =>
    /\ Len(last.questions) = 1
    /\ last.questions[1].index = 1
    /\ last.questions[1].type = "MULTIPLE_CHOICE"
    /\ last.questions[1].stem =
         <<"W", "h", "a", "t", " ", "i", "s", " ", "2", "+", "2", "?">>
    /\ last.questions[1].choices =
         <<[key |-> "A", text |-> <<"3">>], [key |-> "B", text |-> <<"4">>]>>
    /\ last.questions[1].answer = <<>>
    /\ last.unparsed = <<>>
    /\ last.stats.unparsed = 0

\* the lines of block b after the first match neither CHOICE nor ANSWER
PlainBlock(b) ==
  /\ b.num # Null
  /\ \A j \in 2..Len(b.lines) :
       /\ ~CHOICE(Trim(b.lines[j].text)).ok
       /\ ~ANSWER(Trim(b.lines[j].text)).ok

\* the text of the first line after its numbering prefix, then the text of
\* every later line
PlainBlockText(b) ==
  Drop(b.lines[1].text, NumPrefixEnd(b.lines[1].text))
    \o Join([j \in 1..(Len(b.lines) - 1) |-> b.lines[j + 1].text], <<>>)

\* C17: a numbered block whose later lines are neither choice nor answer
\* lines gives a FREE_RESPONSE question without choices; its stem is the
\* first line without the numbering prefix followed by the later lines in
\* order (whitespace aside), and a stem of 3 or more non-whitespace
\* characters comes with no entry for the block (told from other blocks'
\* entries when the block's number is declared once).
C17_PlainBlockIsFreeResponse ==
  Converted =>
    \A k \in BlockIdx :
      LET b == last.blocks[k]
          q == last.questions[k]
      IN PlainBlock(b) =>
           /\ q.type = "FREE_RESPONSE"
           /\ q.choices = <<>>
           /\ NonSpace(q.stem) = NonSpace(PlainBlockText(b))
           /\ (/\ Len(NonSpace(q.stem)) >= 3
               /\ Cardinality(BlocksDeclaring(last.blocks, b.num)) = 1) =>
                \A j \in 1..Len(last.pushed) :
                  last.pushed[j].reason \in PerBlockReasons =>
                    last.pushed[j].index # q.index

\* the blocks whose question has index n and which hold exactly c choice lines
BlocksWithChoices(n, c) ==
  {k \in BlockIdx :
     /\ last.questions[k].index = n
     /\ Cardinality(ChoiceLines(last.blocks[k].lines)) = c}

\* C18: a block pushes an incomplete-choices entry exactly when it yielded
\* one choice: per index there are as many such entries as blocks with one
\* choice; the question of such a block is emitted with its single choice
\* and type FREE_RESPONSE.
C18_IncompleteChoices ==
  Converted =>
    /\ \A n \in {last.questions[k].index : k \in BlockIdx}
                  \cup EntryIndices(last.pushed, "incomplete-choices") :
         CountEntries(last.pushed, "incomplete-choices", n) =
           Cardinality(BlocksWithChoices(n, 1))
    /\ Null \notin EntryIndices(last.pushed, "incomplete-choices")
    /\ \A k \in BlockIdx :
         Cardinality(ChoiceLines(last.blocks[k].lines)) = 1 =>
           /\ Len(last.questions[k].choices) = 1
           /\ last.questions[k].type = "FREE_RESPONSE"

C18_Witness ==
  /\ Converted
  /\ Len(last.blocks) = 2
  /\ Len(last.questions[1].choices) = 0
  /\ Len(last.questions[2].choices) = 1
  /\ last.questions[2].type = "FREE_RESPONSE"
  /\ CountEntries(last.pushed, "incomplete-choices", last.questions[2].index) = 1
  /\ CountEntries(last.pushed, "incomplete-choices", last.questions[1].index) = 0

\* the index and reason of the entries block k is to push, in source order,
\* each decided on its own from the block and its question
ExpectedOfBlock(k) ==
  LET b == last.blocks[k]
      q == last.questions[k]
      n == Cardinality(ChoiceLines(b.lines))
  IN (IF b.num = Null THEN <<[index |-> Null, reason |-> "no-number"]>> ELSE <<>>)
  \o (IF Len(NonSpace(q.stem)) < 3
      THEN <<[index |-> q.index, reason |-> "empty-stem"]>> ELSE <<>>)
  \o (IF n = 1
      THEN <<[index |-> q.index, reason |-> "incomplete-choices"]>> ELSE <<>>)
  \o (IF n > 8
      THEN <<[index |-> q.index, reason |-> "too-many-choices"]>> ELSE <<>>)

RECURSIVE ExpectedUpTo(_)
ExpectedUpTo(k) ==
  IF k = 0 THEN <<>> ELSE ExpectedUpTo(k - 1) \o ExpectedOfBlock(k)

\* the index and reason of the per-block entries of q, in order
PerBlockEntries(q) ==
  LET sel == SelectSeq(q, LAMBDA e : e.reason \in PerBlockReasons)
  IN [j \in 1..Len(sel) |-> [index |-> sel[j].index, reason |-> sel[j].reason]]

\* C19: every block pushes, independently of one another and each at most
\* once, no-number iff it declares no number, empty-stem iff its stem has
\* fewer than 3 non-whitespace characters, incomplete-choices iff it has
\* exactly 1 choice, too-many-choices iff it has more than 8 choices.
C19_PerBlockDiagnostics ==
  Converted => PerBlockEntries(last.pushed) = ExpectedUpTo(Len(last.blocks))

C19_Witness ==
  /\ Converted
  /\ Len(last.questions) = 1
  /\ Len(last.questions[1].choices) = 9
  /\ PerBlockEntries(last.pushed) =
       <<[index |-> 1, reason |-> "too-many-choices"]>>
  /\ \E j \in 1..Len(unparsed) - 1 :
       /\ unparsed[j].reason = "empty-stem"
       /\ unparsed[j + 1].reason = "incomplete-choices"
       /\ unparsed[j].index = unparsed[j + 1].index

\* the positions of the lines that match Q_START
Starts(lines) == {i \in 1..Len(lines) : Q_START(lines[i].text).ok}

\* the k-th element of a set of integers
NthOf(S, k) == CHOOSE m \in S : Cardinality({o \in S : o < m}) = k - 1

\* the last position of the block opened at position m: the last line with
\* text before the next matching line
BlockEnd(lines, m) ==
  LET later == {o \in Starts(lines) : o > m}
      stop == IF later = {} THEN Len(lines) ELSE SetMin(later) - 1
      withText == {o \in m..stop : Trim(lines[o].text) # <<>>}
  IN SetMax(withText)

\* C20: when some line matches the numbering pattern there is one block per
\* matching line, in document order; the block holds the matching line and
\* the lines after it up to the next matching line, without the trailing
\* lines that have no text; so no line is in two blocks and the lines before
\* the first matching line are in none.
C20_OneBlockPerNumberedLine ==
  (Converted /\ Starts(last.lines) # {}) =>
    LET S == Starts(last.lines) IN
      /\ Len(last.blocks) = Cardinality(S)
      /\ \A k \in 1..Cardinality(S) :
           LET m == NthOf(S, k) IN
             /\ last.blocks[k].num = Q_START(last.lines[m].text).num
             /\ last.blocks[k].lines =
                  SubSeq(last.lines, m, BlockEnd(last.lines, m))

C20_Witness ==
  /\ Converted
  /\ Len(last.lines) = 3
  /\ Starts(last.lines) = {2}
  /\ Trim(last.lines[3].text) = <<>>
  /\ Len(last.blocks) = 1
  /\ last.blocks[1].lines = <<last.lines[2]>>

HasText(ln) == Trim(ln.text) # <<>>

\* C21 as stated: every block, numbered or made by the fallback wrap, is
\* non-empty and ends with a line that has text.
C21_EveryBlockEndsWithText ==
  Converted =>
    \A k \in BlockIdx :
      LET ls == last.blocks[k].lines IN
        ls # <<>> /\ HasText(ls[Len(ls)])

\* C21: every block is non-empty; a numbered block ends with a line that has
\* text, the trailing lines without text being stripped before it is pushed;
\* the fallback block holds the whole line sequence, trailing lines without
\* text included.
C21_NumberedBlocksEndWithText ==
  Converted =>
    \A k \in BlockIdx :
      LET b == last.blocks[k] IN
        /\ b.lines # <<>>
        /\ b.num # Null => HasText(b.lines[Len(b.lines)])
        /\ b.num = Null => b.lines = last.lines

C21_Witness ==
  /\ Converted
  /\ Len(last.lines) = 3
  /\ ~HasText(last.lines[2])
  /\ ~HasText(last.lines[3])
  /\ Len(last.blocks) = 1
  /\ last.blocks[1].num # Null
  /\ Len(last.blocks[1].lines) = 1

\* the last line that continues the choice or answer line at position c: the
\* line before the next choice or answer line, or the last line of the block
RunEnd(lines, c) ==
  LET later == {j \in ChoiceLines(lines) \cup AnswerLines(lines) : j > c}
  IN IF later = {} THEN Len(lines) ELSE SetMin(later) - 1

\* text with the markup of the lines j..stop appended, a space before each
RECURSIVE AppendLines(_, _, _, _)
AppendLines(text, lines, j, stop) ==
  IF j > stop THEN text
  ELSE AppendLines(Trim(text \o <<" ">> \o lines[j].html), lines, j + 1, stop)

\* the choice made from the choice line at position c and its continuations
ChoiceOfLine(lines, c) ==
  [key |-> Trim(lines[c].text)[1],
   text |-> AppendLines(cleanChoiceHtml(stripChoicePrefix(lines[c].html)),
                        lines, c + 1, RunEnd(lines, c))]

\* C22: in a block every line matching the choice pattern makes one choice,
\* in order of appearance, repeated and unordered keys included; the lines
\* after it, up to the next choice line, answer line or the end of the block,
\* are appended to that choice's text and to no other.
C22_ChoicesAndContinuations ==
  Converted =>
    \A k \in BlockIdx :
      LET lines == last.blocks[k].lines
          C == ChoiceLines(lines)
          ch == last.questions[k].choices
      IN /\ Len(ch) = Cardinality(C)
         /\ \A n \in 1..Cardinality(C) :
              ch[n] = ChoiceOfLine(lines, NthOf(C, n))

C22_Witness ==
  /\ Converted
  /\ Len(last.questions) = 1
  /\ Len(last.questions[1].choices) = 3
  /\ last.questions[1].choices[1].key = "B"
  /\ last.questions[1].choices[2].key = "A"
  /\ last.questions[1].choices[3].key = "B"
  /\ last.questions[1].choices[1].text = <<"t", "w", "o">>
  /\ last.questions[1].choices[2].text =
       <<"o", "n", "e", " ", "<em>", "m", "o", "r", "e", "</em>">>
  /\ last.questions[1].choices[3].text = <<"a", "g", "a", "i", "n">>

\* the lines of a block that go to the stem: the first line unless it is a
\* choice or answer line, and every later line that is neither and follows
\* no choice line, or follows an answer line more closely than a choice line
StemLines(lines) ==
  {j \in 1..Len(lines) :
     /\ j \notin ChoiceLines(lines) \cup AnswerLines(lines)
     /\ \/ j = 1
        \/ {c \in ChoiceLines(lines) : c < j} = {}
        \/ \E a \in AnswerLines(lines) :
             a < j /\ \A c \in ChoiceLines(lines) : c < j => c < a}

StemPartOf(lines, j) ==
  IF j = 1 THEN stripNumPrefix(lines[j].html) ELSE lines[j].html

\* C23: an answer line clears activeChoice: a continuation line that follows
\* an answer line, with no choice line in between, goes to the stem and to
\* no choice, so the emitted stem holds the text after the answer key.
C23_AnswerClearsActiveChoice ==
  Converted =>
    \A k \in BlockIdx :
      LET lines == last.blocks[k].lines
          S == StemLines(lines)
          parts == [n \in 1..Cardinality(S) |-> StemPartOf(lines, NthOf(S, n))]
      IN /\ last.questions[k].stem = toPlainStem(StemHTML(parts))
         /\ \A a \in AnswerLines(lines) :
              \A j \in (a + 1)..RunEnd(lines, a) : j \in S

C23_Witness ==
  /\ Converted
  /\ Len(last.questions) = 1
  /\ Len(last.questions[1].choices) = 3
  /\ AnswerLines(last.blocks[1].lines) = {6}
  /\ Len(last.blocks[1].lines) = 8
  /\ last.questions[1].stem =
       <<"P", "i", "c", "k", ".", "a", "f", "t", "e", "r", " ", "k", "e", "y",
         "a", "n", "d", " ", "m", "o", "r", "e">>

\* where the entries of a reason stand in the list of one invocation
Rank(reason) ==
  IF reason = "duplicate-number" THEN 1
  ELSE IF reason = "missing-number" THEN 2
  ELSE 3

\* q holds the duplicate-number entries, then the missing-number entries by
\* ascending index, then the per-block entries in the order of the blocks
AuditThenBlocks(q) ==
  /\ \A i, j \in 1..Len(q) :
       i < j =>
         /\ Rank(q[i].reason) <= Rank(q[j].reason)
         /\ (q[i].reason = "missing-number" /\ q[j].reason = "missing-number")
              => q[i].index < q[j].index
  /\ PerBlockEntries(q) = ExpectedUpTo(Len(last.blocks))

\* C24: in the diagnostics list a conversion returns, the audit's entries
\* stand before the per-block entries: the duplicate-number entries, then the
\* missing-number entries by ascending index, then the per-block entries in
\* block order.
C24_AuditEntriesFirst ==
  (Converted /\ last.diag) => AuditThenBlocks(last.unparsed)

\* the same order, for the entries the invocation itself pushed
C24_OwnEntriesOrdered ==
  Converted => AuditThenBlocks(last.pushed)

\* C25: a block without a number exists only as the single fallback block:
\* an invocation pushes at most one no-number entry, and when it pushes one
\* there is exactly one block, its question has index 1 and id Q1, and the
\* audit pushes no duplicate-number and no missing-number entry.
C25_NoNumberOnlyFallback ==
  Converted =>
    LET nn == SelectSeq(last.pushed, LAMBDA e : e.reason = "no-number") IN
      /\ Len(nn) <= 1
      /\ Len(nn) = 1 <=> \E k \in BlockIdx : last.blocks[k].num = Null
      /\ (\E k \in BlockIdx : last.blocks[k].num = Null) =>
           /\ Len(last.blocks) = 1
           /\ Len(last.questions) = 1
           /\ last.questions[1].index = 1
           /\ last.questions[1].id = <<"Q", "1">>
           /\ Reasons(last.pushed) \cap {"duplicate-number", "missing-number"} = {}
           /\ NoLineNumbered(last.lines)

C25_Witness ==
  /\ Converted
  /\ Len(last.lines) = 3
  /\ Len(last.blocks) = 1
  /\ last.blocks[1].num = Null
  /\ Len(SelectSeq(last.pushed, LAMBDA e : e.reason = "no-number")) = 1
  /\ last.questions[1].id = <<"Q", "1">>

\* an edit request whose pages field has been parsed
PdfParsed == pdf.step = "answered" /\ pdf.loaded /\ pdf.action = "edit"

StrictlyAscending(q) == \A i, j \in 1..Len(q) : i < j => q[i] < q[j]

\* C26: for every input string and every page count max >= 0 the list
\* parsePagesList returns is strictly ascending, so free of duplicates, holds
\* only pages of 1..max, and is empty for an empty input.
C26_PagesWithinRange ==
  PdfParsed =>
    /\ StrictlyAscending(pdf.selected)
    /\ \A k \in 1..Len(pdf.selected) : pdf.selected[k] \in 1..pdf.total
    /\ pdf.pages = <<>> => pdf.selected = <<>>

\* the same for page counts of 1 and more
C26_PagesWithinRangeFromOne ==
  (PdfParsed /\ pdf.total >= 1) =>
    /\ StrictlyAscending(pdf.selected)
    /\ \A k \in 1..Len(pdf.selected) : pdf.selected[k] \in 1..pdf.total
    /\ pdf.pages = <<>> => pdf.selected = <<>>

\* C27: a strictly ascending list of pages of 1..max comes back unchanged
\* from parsePagesList(compressRanges(S), max): the server selects the pages
\* that were ticked.
C27_RoundTrip ==
  trip.step = "parsed" => trip.parsed = trip.nums

C27_Witness ==
  /\ trip.step = "parsed"
  /\ trip.max = 10
  /\ trip.pages = <<"1", "-", "3", ",", "5", ",", "8", "-", "1", "0">>
  /\ trip.parsed = <<1, 2, 3, 5, 8, 9, 10>>

SetOf(q) == {q[k] : k \in 1..Len(q)}

\* C28: in an edit the pages kept are the selected pages in keep mode and the
\* pages of 1..total outside the selection in delete mode, in ascending
\* order; when there is none the response is the error "No pages to keep
\* after edit." without a document, so a successful response has a non-empty
\* keptPages within 1..total.
C28_KeptPages ==
  PdfParsed =>
    LET keep == IF ModeOf(pdf.mode) = "keep" THEN SetOf(pdf.selected)
                ELSE (1..pdf.total) \ SetOf(pdf.selected)
    IN /\ keep = {} =>
            /\ pdf.status = 400
            /\ pdf.error = "No pages to keep after edit."
            /\ ~pdf.document
            /\ pdf.keptPages = <<>>
       /\ pdf.status = 200 =>
            /\ pdf.document
            /\ SetOf(pdf.keptPages) = keep
            /\ StrictlyAscending(pdf.keptPages)
            /\ pdf.keptPages # <<>>
            /\ SetOf(pdf.keptPages) \subseteq 1..pdf.total
       /\ (keep # {} /\ keep \subseteq 1..pdf.total) => pdf.status = 200
       /\ pdf.status # 200 => ~pdf.document /\ pdf.keptPages = <<>>

C28_Witness ==
  /\ PdfParsed
  /\ pdf.status = 200
  /\ pdf.mode = "delete"
  /\ pdf.total = 3
  /\ pdf.selected = <<1, 3>>
  /\ pdf.keptPages = <<2>>

\* the statuses a settled conversion leaves
SettledStatuses == {DoneStatus(n) : n \in 0..MaxQuestions} \cup ConvertErrors

\* C29: every conversion that starts (busy set to true) ends with busy false
\* once the request settles; the step that ends it leaves status at the
\* "Done. Parsed N question(s)." message or at an error message; and busy is
\* true exactly while the request is in flight, never after it has settled.
C29_ConversionEnds ==
  /\ (ui.busy ~> ~ui.busy)
  /\ [][(ui.busy /\ ~ui'.busy) => ui'.status \in SettledStatuses]_vars
  /\ [][(ui.pending # <<>> /\ ui'.pending = <<>>) => ~ui'.busy]_vars
  /\ [](ui.busy <=> ui.pending # <<>>)

\* a conversion of a.docx has ended with two questions and the Done message
C29_Witness ==
  /\ ~ui.busy
  /\ ui.pending = <<>>
  /\ ui.dataFrom = <<"a", ".", "d", "o", "c", "x">>
  /\ Len(ui.data.questions) = 2
  /\ ui.status = DoneStatus(2)

\* C30: whenever a conversion result is displayed (data non-null) while a
\* file is selected, the result was produced from the selected file.
C30_ResultFromSelectedFile ==
  (~ui.data.isNull /\ ui.file # <<>>) => ui.dataFrom = ui.file

\* C31: whenever the diagnostics payload diag is non-null, data is non-null
\* and diag.questions is the question list data holds; no diagnostics of an
\* earlier conversion remain after Reset or after another pick.
C31_DiagMatchesData ==
  ~ui.diag.isNull =>
    /\ ~ui.data.isNull
    /\ ui.diag.questions = ui.data.questions

====
